---- MODULE Spec2Model ----
(***************************************************************************)
(* A model of mwaa/logging/config.py (Airflow 2.9.1 image): the module    *)
(* level statements that copy Airflow's DEFAULT_LOGGING_CONFIG, define    *)
(* MWAA_LOGGERS and run _configure(), which reads the environment and     *)
(* writes CloudWatch handler and logger entries into the configuration.   *)
(*                                                                         *)
(* A Python str is a sequence of one-character strings, so that upper(),  *)
(* lower(), replace() and f-string concatenation are computed and not     *)
(* assumed.  A dict is a function; a dict that Python shares by reference *)
(* lives in `heap` and is named by its address.                           *)
(***************************************************************************)
EXTENDS Integers, Sequences, FiniteSets, TLC

VARIABLES
    environ,                 \* os.environ: env var name -> value (both str)
    heap,                    \* address -> object (the dicts shared by reference)
    DEFAULT_LOGGING_CONFIG,  \* Airflow's dict: top-level key -> address
    LOGGING_CONFIG,          \* this module's dict: top-level key -> address
    MWAA_LOGGERS,            \* module global, unbound until line 170 has run
    pc,                      \* the module-level statement / call executed next
    comp,                    \* index of the loop variable of line 155
    args,                    \* the tuple read at line 156
    inherited,               \* history: heap as it was when the module was imported
    writes,                  \* history: the entries written, by step
    pending                  \* the calls of _configure not yet made (any-order runs)

vars == <<environ, heap, DEFAULT_LOGGING_CONFIG, LOGGING_CONFIG, MWAA_LOGGERS,
          pc, comp, args, inherited, writes, pending>>

(***************************************************************************)
(* Python values                                                           *)
(***************************************************************************)

\* None: a one-element sequence whose element is no single character, hence
\* different from every str.
None == <<"None">>

\* Mutant of Truthy: `if log_group_arn is not None:`.
TruthyNotNone(v) == v # None

\* bool(v) for v a str or None, as tested by `if log_group_arn:`.
Truthy(v) == v # None /\ Len(v) > 0

LowerChars == <<"a","b","c","d","e","f","g","h","i","j","k","l","m",
                "n","o","p","q","r","s","t","u","v","w","x","y","z">>
UpperChars == <<"A","B","C","D","E","F","G","H","I","J","K","L","M",
                "N","O","P","Q","R","S","T","U","V","W","X","Y","Z">>

\* str.lower() and str.upper(), character by character.
ToLower == [c \in {UpperChars[k] : k \in DOMAIN UpperChars} |->
              LowerChars[CHOOSE k \in DOMAIN UpperChars : UpperChars[k] = c]]
ToUpper == [c \in {LowerChars[k] : k \in DOMAIN LowerChars} |->
              UpperChars[CHOOSE k \in DOMAIN LowerChars : LowerChars[k] = c]]
LowerChar(c) == IF c \in DOMAIN ToLower THEN ToLower[c] ELSE c
UpperChar(c) == IF c \in DOMAIN ToUpper THEN ToUpper[c] ELSE c
lower(s) == [k \in 1..Len(s) |-> LowerChar(s[k])]
upper(s) == [k \in 1..Len(s) |-> UpperChar(s[k])]

\* str.replace(old, new) for one-character old and new.
replace(s, old, new) == [k \in 1..Len(s) |-> IF s[k] = old THEN new ELSE s[k]]

\* os.environ.get(name, default)
EnvGet(env, name, default) == IF name \in DOMAIN env THEN env[name] ELSE default

\* Mutant of DictUpdate: the dict replaced by the update, not merged with it.
DictReplace(d, u) == u

\* d[k] = v and d.update(u) on a dict.
DictSet(d, k, v) == [x \in DOMAIN d \cup {k} |-> IF x = k THEN v ELSE d[x]]
DictUpdate(d, u) ==
    [x \in DOMAIN d \cup DOMAIN u |-> IF x \in DOMAIN u THEN u[x] ELSE d[x]]
EmptyDict == [x \in {} |-> None]

(***************************************************************************)
(* Names                                                                   *)
(***************************************************************************)
TASK == <<"t","a","s","k">>
DAGPROCESSOR == <<"d","a","g","p","r","o","c","e","s","s","o","r">>
\* the list of line 155
Components ==
    << <<"W","o","r","k","e","r">>,
       <<"S","c","h","e","d","u","l","e","r">>,
       <<"W","e","b","S","e","r","v","e","r">>,
       <<"T","r","i","g","g","e","r","e","r">> >>
\* f"{comp}_requirements"
RequirementsName(c) == c \o <<"_","r","e","q","u","i","r","e","m","e","n","t","s">>

EnvPrefix ==
    <<"M","W","A","A","_","_","L","O","G","G","I","N","G","_","_",
      "A","I","R","F","L","O","W","_">>
ArnSuffix == <<"_","L","O","G","_","G","R","O","U","P","_","A","R","N">>
LevelSuffix == <<"_","L","O","G","_","L","E","V","E","L">>
EnabledSuffix == <<"_","L","O","G","S","_","E","N","A","B","L","E","D">>
\* Mutant of EnvName: the source name used as passed, without .upper().
EnvNameNoUpper(source, suffix) == EnvPrefix \o source \o suffix

\* f"MWAA__LOGGING__AIRFLOW_{source.upper()}<suffix>"
EnvName(source, suffix) == EnvPrefix \o upper(source) \o suffix
KmsEnvName ==
    <<"M","W","A","A","_","_","C","O","R","E","_","_",
      "K","M","S","_","K","E","Y","_","A","R","N">>

\* logging.getLevelName(logging.INFO)
INFO == <<"I","N","F","O">>

AIRFLOW_TASK == <<"a","i","r","f","l","o","w",".","t","a","s","k">>
AIRFLOW_PROCESSOR_MANAGER ==
    <<"a","i","r","f","l","o","w",".","p","r","o","c","e","s","s","o","r",
      "_","m","a","n","a","g","e","r">>
AIRFLOW_PROCESSOR ==
    <<"a","i","r","f","l","o","w",".","p","r","o","c","e","s","s","o","r">>
PROCESSOR_MANAGER ==
    <<"p","r","o","c","e","s","s","o","r","_","m","a","n","a","g","e","r">>
PROCESSOR == <<"p","r","o","c","e","s","s","o","r">>

\* lines 161-168
SCHEDULER_LOGGER_NAME == <<"m","w","a","a",".","s","c","h","e","d","u","l","e","r">>
SCHEDULER_REQUIREMENTS_LOGGER_NAME ==
    <<"m","w","a","a",".","s","c","h","e","d","u","l","e","r",
      "_","r","e","q","u","i","r","e","m","e","n","t","s">>
TRIGGERER_LOGGER_NAME == <<"m","w","a","a",".","t","r","i","g","g","e","r","e","r">>
TRIGGERER_REQUIREMENTS_LOGGER_NAME ==
    <<"m","w","a","a",".","t","r","i","g","g","e","r","e","r",
      "_","r","e","q","u","i","r","e","m","e","n","t","s">>
WEBSERVER_LOGGER_NAME == <<"m","w","a","a",".","w","e","b","s","e","r","v","e","r">>
WEBSERVER_REQUIREMENTS_LOGGER_NAME ==
    <<"m","w","a","a",".","w","e","b","s","e","r","v","e","r",
      "_","r","e","q","u","i","r","e","m","e","n","t","s">>
WORKER_LOGGER_NAME == <<"m","w","a","a",".","w","o","r","k","e","r">>
WORKER_REQUIREMENTS_LOGGER_NAME ==
    <<"m","w","a","a",".","w","o","r","k","e","r",
      "_","r","e","q","u","i","r","e","m","e","n","t","s">>

\* The dict literal of lines 170-179, as a set of (key, value) pairs and as a dict.
MwaaLoggersItems ==
    { << <<"s","c","h","e","d","u","l","e","r">>, SCHEDULER_LOGGER_NAME >>,
      << <<"s","c","h","e","d","u","l","e","r",
           "_","r","e","q","u","i","r","e","m","e","n","t","s">>,
         SCHEDULER_REQUIREMENTS_LOGGER_NAME >>,
      << <<"t","r","i","g","g","e","r","e","r">>, TRIGGERER_LOGGER_NAME >>,
      << <<"t","r","i","g","g","e","r","e","r",
           "_","r","e","q","u","i","r","e","m","e","n","t","s">>,
         TRIGGERER_REQUIREMENTS_LOGGER_NAME >>,
      << <<"w","e","b","s","e","r","v","e","r">>, WEBSERVER_LOGGER_NAME >>,
      << <<"w","e","b","s","e","r","v","e","r",
           "_","r","e","q","u","i","r","e","m","e","n","t","s">>,
         WEBSERVER_REQUIREMENTS_LOGGER_NAME >>,
      << <<"w","o","r","k","e","r">>, WORKER_LOGGER_NAME >>,
      << <<"w","o","r","k","e","r",
           "_","r","e","q","u","i","r","e","m","e","n","t","s">>,
         WORKER_REQUIREMENTS_LOGGER_NAME >> }
\* Mutant of MwaaLoggersDict: "worker_requirements" given the worker's logger.
MwaaLoggersDictCopyPaste ==
    [k \in {it[1] : it \in MwaaLoggersItems} |->
        IF (CHOOSE it \in MwaaLoggersItems : it[1] = k)[2]
             = WORKER_REQUIREMENTS_LOGGER_NAME
        THEN WORKER_LOGGER_NAME
        ELSE (CHOOSE it \in MwaaLoggersItems : it[1] = k)[2]]

MwaaLoggersDict ==
    [k \in {it[1] : it \in MwaaLoggersItems} |->
        (CHOOSE it \in MwaaLoggersItems : it[1] = k)[2]]

(***************************************************************************)
(* The functions of config.py.  A configuration step takes the two shared  *)
(* dicts cfg = [handlers, loggers] and returns them after its writes, with *)
(* `wrote`, the (dict, key) pairs it assigned or updated, and `raised`,    *)
(* whether a KeyError ended it.                                            *)
(***************************************************************************)
\* Mutant of _get_kms_key_arn: "" instead of None as the default.
GetKmsKeyArnEmptyDefault(env) == EnvGet(env, KmsEnvName, <<>>)

_get_kms_key_arn(env) == EnvGet(env, KmsEnvName, None)

\* Mutant of _get_mwaa_logging_env_vars: the flag compared without .lower().
GetEnvVarsCaseSensitive(env, source) ==
    LET log_group_arn == EnvGet(env, EnvName(source, ArnSuffix), None)
        log_level == EnvGet(env, EnvName(source, LevelSuffix), INFO)
        logging_enabled ==
            EnvGet(env, EnvName(source, EnabledSuffix), <<"f","a","l","s","e">>)
    IN  << log_group_arn, log_level, logging_enabled = <<"t","r","u","e">> >>

_get_mwaa_logging_env_vars(env, source) ==
    LET log_group_arn == EnvGet(env, EnvName(source, ArnSuffix), None)
        log_level == EnvGet(env, EnvName(source, LevelSuffix), INFO)
        logging_enabled ==
            EnvGet(env, EnvName(source, EnabledSuffix), <<"f","a","l","s","e">>)
    IN  << log_group_arn, log_level, lower(logging_enabled) = <<"t","r","u","e">> >>

TaskHandlerEntry(env, log_group_arn, logging_enabled) ==
    [ class |-> "mwaa.logging.cloudwatch_handlers.TaskLogHandler",
      formatter |-> "airflow",
      filters |-> <<"mask_secrets">>,
      base_log_folder |-> "BASE_LOG_FOLDER",
      log_group_arn |-> log_group_arn,
      kms_key_arn |-> _get_kms_key_arn(env),
      enabled |-> logging_enabled ]

_configure_task_logging(env, cfg) ==
    LET e == _get_mwaa_logging_env_vars(env, TASK)
        log_group_arn == e[1]
        log_level == e[2]
        logging_enabled == e[3]
        handlers == DictSet(cfg.handlers, TASK,
                            TaskHandlerEntry(env, log_group_arn, logging_enabled))
    IN  IF ~Truthy(log_group_arn)
        THEN [handlers |-> cfg.handlers, loggers |-> cfg.loggers,
              wrote |-> {}, raised |-> FALSE]
        ELSE IF AIRFLOW_TASK \notin DOMAIN cfg.loggers
        THEN [handlers |-> handlers, loggers |-> cfg.loggers,
              wrote |-> {<<"handlers", TASK>>}, raised |-> TRUE]
        ELSE [handlers |-> handlers,
              loggers |-> DictSet(cfg.loggers, AIRFLOW_TASK,
                             DictUpdate(cfg.loggers[AIRFLOW_TASK],
                                        [level |-> log_level])),
              wrote |-> {<<"handlers", TASK>>, <<"loggers", AIRFLOW_TASK>>},
              raised |-> FALSE]

ProcessorManagerHandlerEntry(env, log_group_arn, logging_enabled) ==
    [ class |-> "mwaa.logging.cloudwatch_handlers.DagProcessorManagerLogHandler",
      formatter |-> "airflow",
      log_group_arn |-> log_group_arn,
      kms_key_arn |-> _get_kms_key_arn(env),
      stream_name |-> "basename(DAG_PROCESSOR_MANAGER_LOG_LOCATION)",
      enabled |-> logging_enabled ]

ProcessorHandlerEntry(env, log_group_arn, logging_enabled) ==
    [ class |-> "mwaa.logging.cloudwatch_handlers.DagProcessingLogHandler",
      formatter |-> "airflow",
      log_group_arn |-> log_group_arn,
      kms_key_arn |-> _get_kms_key_arn(env),
      stream_name_template |-> "PROCESSOR_FILENAME_TEMPLATE",
      enabled |-> logging_enabled ]

\* Mutant of LoggerEntry: the logger written without its handler.
LoggerEntryNoHandler(handler_name, log_level) ==
    [ handlers |-> <<>>, level |-> log_level, propagate |-> FALSE ]

\* The logger literal of lines 100-104, 115-119 and 142-146.
LoggerEntry(handler_name, log_level) ==
    [ handlers |-> <<handler_name>>, level |-> log_level, propagate |-> FALSE ]

_configure_dag_processing_logging(env, cfg) ==
    LET e == _get_mwaa_logging_env_vars(env, DAGPROCESSOR)
        log_group_arn == e[1]
        log_level == e[2]
        logging_enabled == e[3]
        h1 == DictSet(cfg.handlers, PROCESSOR_MANAGER,
                      ProcessorManagerHandlerEntry(env, log_group_arn, logging_enabled))
        l1 == DictSet(cfg.loggers, AIRFLOW_PROCESSOR_MANAGER,
                      LoggerEntry(PROCESSOR_MANAGER, log_level))
        h2 == DictSet(h1, PROCESSOR,
                      ProcessorHandlerEntry(env, log_group_arn, logging_enabled))
        l2 == DictSet(l1, AIRFLOW_PROCESSOR, LoggerEntry(PROCESSOR, log_level))
    IN  IF ~Truthy(log_group_arn)
        THEN [handlers |-> cfg.handlers, loggers |-> cfg.loggers,
              wrote |-> {}, raised |-> FALSE]
        ELSE [handlers |-> h2, loggers |-> l2,
              wrote |-> {<<"handlers", PROCESSOR_MANAGER>>,
                         <<"loggers", AIRFLOW_PROCESSOR_MANAGER>>,
                         <<"handlers", PROCESSOR>>,
                         <<"loggers", AIRFLOW_PROCESSOR>>},
              raised |-> FALSE]

SubprocessHandlerEntry(env, subprocess_name, log_group_arn, logging_enabled) ==
    [ class |-> "mwaa.logging.cloudwatch_handlers.SubprocessLogHandler",
      formatter |-> "airflow",
      filters |-> <<"mask_secrets">>,
      log_group_arn |-> log_group_arn,
      kms_key_arn |-> _get_kms_key_arn(env),
      stream_name_prefix |-> lower(subprocess_name),
      logs_source |-> subprocess_name,
      enabled |-> logging_enabled ]

\* `loggers_by_name` is the module global MWAA_LOGGERS at the time of the call.
_configure_subprocesses_logging(loggers_by_name, env, cfg, subprocess_name, log_group_arn, log_level, logging_enabled) ==
    IF lower(subprocess_name) \notin DOMAIN loggers_by_name
    THEN [handlers |-> cfg.handlers, loggers |-> cfg.loggers,
          wrote |-> {}, raised |-> TRUE]
    ELSE
    LET logger_name == loggers_by_name[lower(subprocess_name)]
        handler_name == replace(logger_name, ".", "_")
    IN  IF ~Truthy(log_group_arn)
        THEN [handlers |-> cfg.handlers, loggers |-> cfg.loggers,
              wrote |-> {}, raised |-> FALSE]
        ELSE [handlers |-> DictSet(cfg.handlers, handler_name,
                              SubprocessHandlerEntry(env, subprocess_name,
                                                     log_group_arn, logging_enabled)),
              loggers |-> DictSet(cfg.loggers, logger_name,
                             LoggerEntry(handler_name, log_level)),
              wrote |-> {<<"handlers", handler_name>>, <<"loggers", logger_name>>},
              raised |-> FALSE]

\* Mutant of UnpackCopy: copy.deepcopy(DEFAULT_LOGGING_CONFIG), every nested
\* object copied to a new address.
DeepCopy(top, h) ==
    [ top |-> [k \in DOMAIN top |-> "copy of " \o top[k]],
      heap |-> [a \in DOMAIN h \cup {"copy of " \o top[k] : k \in DOMAIN top} |->
                  IF a \in DOMAIN h THEN h[a]
                  ELSE h[top[CHOOSE k \in DOMAIN top : a = "copy of " \o top[k]]]] ]

\* LOGGING_CONFIG = {**DEFAULT_LOGGING_CONFIG}: a new top-level dict whose values
\* are the same objects (the same addresses); nothing is allocated.
UnpackCopy(top, h) == [top |-> [k \in DOMAIN top |-> top[k]], heap |-> h]

(***************************************************************************)
(* Airflow 2.9.1's DEFAULT_LOGGING_CONFIG, imported at lines 25-30.  Its    *)
(* "processor_manager" handler and "airflow.processor_manager" logger exist *)
(* only when Airflow was started with CONFIG_PROCESSOR_MANAGER_LOGGER=True; *)
(* the logger level is Airflow's own [logging] logging_level.               *)
(***************************************************************************)
DefaultVariants == {"plain", "with_processor_manager"}
CONSOLE == <<"c","o","n","s","o","l","e">>
PROCESSOR_TO_STDOUT ==
    <<"p","r","o","c","e","s","s","o","r","_","t","o","_","s","t","d","o","u","t">>
FLASK_APPBUILDER ==
    <<"f","l","a","s","k","_","a","p","p","b","u","i","l","d","e","r">>
AirflowLogLevel(variant) ==
    IF variant = "plain" THEN INFO ELSE <<"W","A","R","N","I","N","G">>

DefaultHandlers(variant) ==
    LET base ==
          [k \in {CONSOLE, TASK, PROCESSOR, PROCESSOR_TO_STDOUT} |->
             IF k = CONSOLE THEN
               [ class |-> "airflow.utils.log.logging_mixin.RedirectStdHandler",
                 formatter |-> "airflow_coloured", stream |-> "sys.stdout",
                 filters |-> <<"mask_secrets">> ]
             ELSE IF k = TASK THEN
               [ class |-> "airflow.utils.log.file_task_handler.FileTaskHandler",
                 formatter |-> "airflow", base_log_folder |-> "BASE_LOG_FOLDER",
                 filters |-> <<"mask_secrets">> ]
             ELSE IF k = PROCESSOR THEN
               [ class |-> "airflow.utils.log.file_processor_handler.FileProcessorHandler",
                 formatter |-> "airflow", base_log_folder |-> "PROCESSOR_LOG_FOLDER",
                 filename_template |-> "PROCESSOR_FILENAME_TEMPLATE",
                 filters |-> <<"mask_secrets">> ]
             ELSE
               [ class |-> "airflow.utils.log.logging_mixin.RedirectStdHandler",
                 formatter |-> "source_processor", stream |-> "sys.stdout",
                 filters |-> <<"mask_secrets">> ] ]
    IN  IF variant = "plain" THEN base
        ELSE DictSet(base, PROCESSOR_MANAGER,
               [ class |-> "airflow.utils.log.non_caching_file_handler.NonCachingRotatingFileHandler",
                 formatter |-> "airflow",
                 filename |-> "DAG_PROCESSOR_MANAGER_LOG_LOCATION" ])

DefaultLoggers(variant) ==
    LET base ==
          [k \in {AIRFLOW_PROCESSOR, AIRFLOW_TASK, FLASK_APPBUILDER} |->
             IF k = AIRFLOW_PROCESSOR THEN
               [ handlers |-> <<PROCESSOR>>, level |-> AirflowLogLevel(variant),
                 propagate |-> TRUE ]
             ELSE IF k = AIRFLOW_TASK THEN
               [ handlers |-> <<TASK>>, level |-> AirflowLogLevel(variant),
                 propagate |-> TRUE, filters |-> <<"mask_secrets">> ]
             ELSE
               [ handlers |-> <<CONSOLE>>, level |-> <<"W","A","R","N","I","N","G">>,
                 propagate |-> TRUE ] ]
    IN  IF variant = "plain" THEN base
        ELSE DictSet(base, AIRFLOW_PROCESSOR_MANAGER,
               [ handlers |-> <<PROCESSOR_MANAGER>>, level |-> AirflowLogLevel(variant),
                 propagate |-> FALSE ])

\* The top-level dict: each value is the address of the object it refers to.
DefaultTop ==
    [ version |-> "@version",
      disable_existing_loggers |-> "@disable_existing_loggers",
      formatters |-> "@formatters", filters |-> "@filters",
      handlers |-> "@handlers", loggers |-> "@loggers", root |-> "@root" ]

DefaultHeap(variant) ==
    [a \in {DefaultTop[k] : k \in DOMAIN DefaultTop} |->
        IF a = "@handlers" THEN DefaultHandlers(variant)
        ELSE IF a = "@loggers" THEN DefaultLoggers(variant)
        ELSE EmptyDict]

(***************************************************************************)
(* The environments the runs start from                                    *)
(***************************************************************************)
\* At most this many variable groups (one per source name) are set at once.
MaxConfigured == 2

Sources == {TASK, DAGPROCESSOR} \cup {Components[k] : k \in DOMAIN Components}
\* Names no call of _get_mwaa_logging_env_vars is made with.
DecoySources == {RequirementsName(Components[k]) : k \in DOMAIN Components}

Unset == <<"unset">>
\* One ARN and one level per source name, all different.
ArnOf(source) == <<"a","r","n",":">> \o lower(source)
LevelOf(source) ==
    IF source = TASK THEN <<"D","E","B","U","G">>
    ELSE IF source = DAGPROCESSOR THEN <<"E","R","R","O","R">>
    ELSE IF source = Components[1] THEN <<"C","R","I","T","I","C","A","L">>
    ELSE IF source = Components[2] THEN <<"d","e","b","u","g">>
    ELSE IF source = Components[3] THEN <<"N","O","T","S","E","T">>
    ELSE IF source = Components[4] THEN <<"W","A","R","N","I","N","G">>
    ELSE <<"T","R","A","C","E">> \o lower(source)
KmsArn == <<"a","r","n",":","k","m","s">>
EnabledValues ==
    { Unset, <<"t","r","u","e">>, <<"T","R","U","E">>, <<"T","r","u","e">>,
      <<"f","a","l","s","e">>, <<"1">>, <<"y","e","s">>, <<>>,
      <<" ","t","r","u","e">> }

\* The names the deployment gives the variables, written out: the upper-case
\* source name between the prefix and the suffix.
DeployedName(s) ==
    LET up ==
          IF s = TASK THEN <<"T","A","S","K">>
          ELSE IF s = DAGPROCESSOR
               THEN <<"D","A","G","P","R","O","C","E","S","S","O","R">>
          ELSE IF s \in {Components[1], RequirementsName(Components[1])}
               THEN <<"W","O","R","K","E","R">>
          ELSE IF s \in {Components[2], RequirementsName(Components[2])}
               THEN <<"S","C","H","E","D","U","L","E","R">>
          ELSE IF s \in {Components[3], RequirementsName(Components[3])}
               THEN <<"W","E","B","S","E","R","V","E","R">>
          ELSE <<"T","R","I","G","G","E","R","E","R">>
    IN  IF s \in DecoySources
        THEN up \o <<"_","R","E","Q","U","I","R","E","M","E","N","T","S">>
        ELSE up
DeployedVar(s, suffix) == EnvPrefix \o DeployedName(s) \o suffix

\* os.environ holding, for each source name of `assign`, the variables its
\* profile sets, and the KMS key variable unless kms is Unset.
EnvOf(assign, kms) ==
    LET pairs ==
          UNION { { <<DeployedVar(s, ArnSuffix), assign[s].arn>>,
                    <<DeployedVar(s, LevelSuffix), assign[s].level>>,
                    <<DeployedVar(s, EnabledSuffix), assign[s].enabled>> }
                  : s \in DOMAIN assign }
          \cup { <<KmsEnvName, kms>> }
        set == { p \in pairs : p[2] # Unset }
    IN  [n \in {p[1] : p \in set} |-> (CHOOSE p \in set : p[1] = n)[2]]

\* The calls _configure makes, named by the source or sub-process they are for.
AllCalls == Sources \cup DecoySources

InitWith(env, variant) ==
    /\ environ = env
    /\ heap = DefaultHeap(variant)
    /\ DEFAULT_LOGGING_CONFIG = DefaultTop
    /\ LOGGING_CONFIG = EmptyDict
    /\ MWAA_LOGGERS = EmptyDict
    /\ pc = "L38"
    /\ comp = 1
    /\ args = None
    /\ inherited = DefaultHeap(variant)
    /\ writes = {}
    /\ pending = AllCalls

\* The three variables of a source name: only the ARN set, all three set, or
\* the level and the flag set without an ARN.
ProfileKinds == {"arn", "all", "no_arn"}
Profile(s, kind) ==
    [ arn |-> IF kind = "no_arn" THEN Unset ELSE ArnOf(s),
      level |-> IF kind = "arn" THEN Unset ELSE LevelOf(s),
      enabled |-> IF kind = "arn" THEN Unset ELSE <<"T","r","u","e">> ]

\* Up to MaxConfigured source names have variables set: sources in one of the
\* three ways, decoy names with all three.
InitBroad ==
    \E R \in SUBSET Sources, D \in SUBSET DecoySources :
      /\ Cardinality(R) + Cardinality(D) <= MaxConfigured
      /\ \E kinds \in [R -> ProfileKinds], kms \in {Unset, KmsArn},
            variant \in DefaultVariants :
           InitWith(EnvOf([s \in R \cup D |->
                             IF s \in R THEN Profile(s, kinds[s])
                             ELSE Profile(s, "all")],
                          kms),
                    variant)

\* One source, with every value of its three variables.
InitDeep ==
    \E s \in Sources :
      \E arn \in {Unset, <<>>, ArnOf(s)}, level \in {Unset, <<>>, LevelOf(s)},
         enabled \in EnabledValues, kms \in {Unset, <<>>, KmsArn},
         variant \in DefaultVariants :
        InitWith(EnvOf([x \in {s} |->
                          [arn |-> arn, level |-> level, enabled |-> enabled]],
                       kms),
                 variant)

\* Any set of sources, each with all three of its variables set (a deployment
\* sets them together), and the KMS key.
InitSubsets ==
    \E R \in SUBSET Sources, variant \in DefaultVariants :
      InitWith(EnvOf([s \in R |-> Profile(s, "all")], KmsArn), variant)

Init == InitBroad \/ InitDeep \/ InitSubsets

\* The same sets of sources, on the default configuration that already holds
\* processor_manager entries.
InitAnyOrder ==
    \E R \in SUBSET Sources :
      InitWith(EnvOf([s \in R |-> Profile(s, "all")], KmsArn),
               "with_processor_manager")

(***************************************************************************)
(* The module-level statements and the calls of _configure                 *)
(***************************************************************************)
\* LOGGING_CONFIG["handlers"] and LOGGING_CONFIG["loggers"], through the heap.
CurrentCfg ==
    [ handlers |-> heap[LOGGING_CONFIG["handlers"]],
      loggers |-> heap[LOGGING_CONFIG["loggers"]] ]

\* The writes of a step land in the objects LOGGING_CONFIG refers to.
Store(r, call) ==
    /\ heap' = [heap EXCEPT ![LOGGING_CONFIG["handlers"]] = r.handlers,
                            ![LOGGING_CONFIG["loggers"]] = r.loggers]
    /\ writes' = writes \cup
                   {[call |-> call, dict |-> w[1], key |-> w[2]] : w \in r.wrote}
    /\ pending' = pending \ {call}

\* lines 38-40
Import38 ==
    /\ pc = "L38"
    /\ LET c == UnpackCopy(DEFAULT_LOGGING_CONFIG, heap)
       IN  LOGGING_CONFIG' = c.top /\ heap' = c.heap
    /\ pc' = "L170"
    /\ UNCHANGED <<environ, DEFAULT_LOGGING_CONFIG, MWAA_LOGGERS, comp, args,
                   inherited, writes, pending>>

\* lines 161-179; line 181 then enters _configure
DefineLoggers ==
    /\ pc = "L170"
    /\ MWAA_LOGGERS' = MwaaLoggersDict
    /\ pc' = "L150"
    /\ UNCHANGED <<environ, heap, DEFAULT_LOGGING_CONFIG, LOGGING_CONFIG, comp, args,
                   inherited, writes, pending>>

\* line 150
ConfigureTask ==
    /\ pc = "L150"
    /\ LET r == _configure_task_logging(environ, CurrentCfg)
       IN  Store(r, TASK) /\ pc' = IF r.raised THEN "KeyError" ELSE "L151"
    /\ UNCHANGED <<environ, DEFAULT_LOGGING_CONFIG, LOGGING_CONFIG, MWAA_LOGGERS,
                   comp, args, inherited>>

\* line 151, then the first iteration of the loop of line 155 begins
ConfigureDagProcessing ==
    /\ pc = "L151"
    /\ LET r == _configure_dag_processing_logging(environ, CurrentCfg)
       IN  Store(r, DAGPROCESSOR)
           /\ pc' = IF r.raised THEN "KeyError"
                    ELSE IF Len(Components) = 0 THEN "done" ELSE "L156"
    /\ comp' = 1
    /\ UNCHANGED <<environ, DEFAULT_LOGGING_CONFIG, LOGGING_CONFIG, MWAA_LOGGERS,
                   args, inherited>>

\* lines 156-157
ConfigureSubprocess ==
    /\ pc = "L156"
    /\ args' = _get_mwaa_logging_env_vars(environ, Components[comp])
    /\ LET r == _configure_subprocesses_logging(MWAA_LOGGERS, environ, CurrentCfg,
                    Components[comp], args'[1], args'[2], args'[3])
       IN  Store(r, Components[comp])
           /\ pc' = IF r.raised THEN "KeyError" ELSE "L158"
    /\ UNCHANGED <<environ, DEFAULT_LOGGING_CONFIG, LOGGING_CONFIG, MWAA_LOGGERS,
                   comp, inherited>>

\* Mutant of ConfigureSubprocessRequirements: the second call reads the
\* variables named after f"{comp}_requirements" instead of reusing args.
ConfigureSubprocessRequirementsOwnVars ==
    /\ pc = "L158"
    /\ LET name == RequirementsName(Components[comp])
           own == _get_mwaa_logging_env_vars(environ, name)
           r == _configure_subprocesses_logging(MWAA_LOGGERS, environ, CurrentCfg,
                    name, own[1], own[2], own[3])
       IN  Store(r, name)
           /\ pc' = IF r.raised THEN "KeyError"
                    ELSE IF comp = Len(Components) THEN "done" ELSE "L156"
    /\ comp' = comp + 1
    /\ UNCHANGED <<environ, DEFAULT_LOGGING_CONFIG, LOGGING_CONFIG, MWAA_LOGGERS,
                   args, inherited>>

\* line 158, then the next iteration or the end of _configure
ConfigureSubprocessRequirements ==
    /\ pc = "L158"
    /\ LET name == RequirementsName(Components[comp])
           r == _configure_subprocesses_logging(MWAA_LOGGERS, environ, CurrentCfg,
                    name, args[1], args[2], args[3])
       IN  Store(r, name)
           /\ pc' = IF r.raised THEN "KeyError"
                    ELSE IF comp = Len(Components) THEN "done" ELSE "L156"
    /\ comp' = comp + 1
    /\ UNCHANGED <<environ, DEFAULT_LOGGING_CONFIG, LOGGING_CONFIG, MWAA_LOGGERS,
                   args, inherited>>

Next ==
    \/ Import38
    \/ DefineLoggers
    \/ ConfigureTask
    \/ ConfigureDagProcessing
    \/ ConfigureSubprocess
    \/ ConfigureSubprocessRequirements

Spec == Init /\ [][Next]_vars

(***************************************************************************)
(* _configure as a function, and its calls made in any order               *)
(***************************************************************************)
\* The component whose variables line 156 reads for the call named c.
ComponentOf(c) ==
    CHOOSE x \in {Components[k] : k \in DOMAIN Components} :
        c \in {x, RequirementsName(x)}

\* One call of lines 150-158, named by the source or sub-process it is for.
Call(loggers_by_name, env, cfg, c) ==
    IF c = TASK THEN _configure_task_logging(env, cfg)
    ELSE IF c = DAGPROCESSOR THEN _configure_dag_processing_logging(env, cfg)
    ELSE LET a == _get_mwaa_logging_env_vars(env, ComponentOf(c))
         IN  _configure_subprocesses_logging(loggers_by_name, env, cfg, c,
                                             a[1], a[2], a[3])

\* The order in which _configure makes its calls.
CallOrder ==
    <<TASK, DAGPROCESSOR>> \o
    [k \in 1..(2 * Len(Components)) |->
        IF k % 2 = 1 THEN Components[(k + 1) \div 2]
        ELSE RequirementsName(Components[k \div 2])]

\* The two dicts after the calls of `calls`, made in that order on cfg.
RECURSIVE RunCalls(_, _, _, _)
RunCalls(calls, loggers_by_name, env, cfg) ==
    IF calls = <<>> THEN cfg
    ELSE LET r == Call(loggers_by_name, env, cfg, Head(calls))
         IN  IF r.raised THEN [handlers |-> r.handlers, loggers |-> r.loggers]
             ELSE RunCalls(Tail(calls), loggers_by_name, env,
                           [handlers |-> r.handlers, loggers |-> r.loggers])

_configure(loggers_by_name, env, cfg) == RunCalls(CallOrder, loggers_by_name, env, cfg)

\* Any call not yet made is made next.
AnyOrderCall ==
    /\ pc = "L150"
    /\ \E c \in pending :
         LET r == Call(MWAA_LOGGERS, environ, CurrentCfg, c)
         IN  /\ Store(r, c)
             /\ pc' = IF r.raised THEN "KeyError"
                      ELSE IF pending = {c} THEN "done" ELSE "L150"
    /\ UNCHANGED <<environ, DEFAULT_LOGGING_CONFIG, LOGGING_CONFIG, MWAA_LOGGERS,
                   comp, args, inherited>>

NextAnyOrder ==
    \/ Import38
    \/ DefineLoggers
    \/ AnyOrderCall

SpecAnyOrder == InitAnyOrder /\ [][NextAnyOrder]_vars

(***************************************************************************)
(* What the claims speak of                                                *)
(***************************************************************************)
HandlersNow == heap[LOGGING_CONFIG["handlers"]]
LoggersNow == heap[LOGGING_CONFIG["loggers"]]
InheritedHandlers == inherited["@handlers"]
InheritedLoggers == inherited["@loggers"]

\* The value of a source's variable in the environment, Unset when absent.
EnvValue(s, suffix) ==
    IF DeployedVar(s, suffix) \in DOMAIN environ
    THEN environ[DeployedVar(s, suffix)] ELSE Unset
ArnIsSet(s) == EnvValue(s, ArnSuffix) \notin {Unset, <<>>}
KmsValue == IF KmsEnvName \in DOMAIN environ THEN environ[KmsEnvName] ELSE None

\* "true" in any mix of upper and lower case.
IsTrueIgnoringCase(v) ==
    /\ Len(v) = 4
    /\ v[1] \in {"t", "T"} /\ v[2] \in {"r", "R"}
    /\ v[3] \in {"u", "U"} /\ v[4] \in {"e", "E"}

ComponentSet == {Components[k] : k \in DOMAIN Components}
\* The lower-case component names, written out.
LowerName(c) ==
    IF c = Components[1] THEN <<"w","o","r","k","e","r">>
    ELSE IF c = Components[2] THEN <<"s","c","h","e","d","u","l","e","r">>
    ELSE IF c = Components[3] THEN <<"w","e","b","s","e","r","v","e","r">>
    ELSE <<"t","r","i","g","g","e","r","e","r">>
Requirements == <<"_","r","e","q","u","i","r","e","m","e","n","t","s">>

\* The handler and logger keys each source is said to own.
ExpectedHandlerKeys(s) ==
    IF s = TASK THEN {TASK}
    ELSE IF s = DAGPROCESSOR THEN {PROCESSOR_MANAGER, PROCESSOR}
    ELSE { <<"m","w","a","a","_">> \o LowerName(s),
           <<"m","w","a","a","_">> \o LowerName(s) \o Requirements }
ExpectedLoggerKeys(s) ==
    IF s = TASK THEN {AIRFLOW_TASK}
    ELSE IF s = DAGPROCESSOR THEN {AIRFLOW_PROCESSOR_MANAGER, AIRFLOW_PROCESSOR}
    ELSE { <<"m","w","a","a",".">> \o LowerName(s),
           <<"m","w","a","a",".">> \o LowerName(s) \o Requirements }
\* The calls made for a source.
CallsOf(s) == IF s \in ComponentSet THEN {s, s \o Requirements} ELSE {s}

SameEntry(d1, d2, k) ==
    /\ k \in DOMAIN d1 <=> k \in DOMAIN d2
    /\ k \in DOMAIN d1 => d1[k] = d2[k]

\* An entry of "handlers" that is one of this module's CloudWatch handlers.
IsCloudWatchHandler(k) ==
    /\ k \in DOMAIN HandlersNow
    /\ "log_group_arn" \in DOMAIN HandlersNow[k]

(***************************************************************************)
(* C1: a source whose LOG_GROUP_ARN variable is absent or empty is         *)
(* disabled: no call writes anything for it, and its handler and logger    *)
(* entries are those of the inherited default configuration, whatever its  *)
(* LOG_LEVEL, LOGS_ENABLED and the KMS key variable hold.                  *)
(***************************************************************************)
C1_AbsentArnDisables ==
    pc # "L38" =>
      \A s \in Sources :
        ~ArnIsSet(s) =>
          /\ \A w \in writes : w.call \notin CallsOf(s)
          /\ \A k \in ExpectedHandlerKeys(s) :
               SameEntry(HandlersNow, InheritedHandlers, k)
          /\ \A k \in ExpectedLoggerKeys(s) :
               SameEntry(LoggersNow, InheritedLoggers, k)

\* _configure has returned for a source whose ARN is the empty string while its
\* flag says "true", its level is set and the KMS key is set.
C1_Witness ==
    /\ pc = "done"
    /\ KmsEnvName \in DOMAIN environ
    /\ \E s \in Sources :
         /\ EnvValue(s, ArnSuffix) = <<>>
         /\ EnvValue(s, EnabledSuffix) = <<"t","r","u","e">>
         /\ EnvValue(s, LevelSuffix) \notin {Unset, <<>>}

(***************************************************************************)
(* C2: after _configure the CloudWatch handlers of a source are in         *)
(* LOGGING_CONFIG["handlers"] exactly when its ARN variable is a non-empty *)
(* string; with the ARN set and the flag "false" or absent the handler is  *)
(* installed with enabled False and the source's ARN.                      *)
(***************************************************************************)
C2_HandlersIffArn ==
    pc = "done" =>
      \A s \in Sources : \A k \in ExpectedHandlerKeys(s) :
        /\ IsCloudWatchHandler(k) <=> ArnIsSet(s)
        /\ s \in ComponentSet => (k \in DOMAIN HandlersNow <=> ArnIsSet(s))
        /\ ( ArnIsSet(s)
             /\ EnvValue(s, EnabledSuffix) \in {Unset, <<"f","a","l","s","e">>} )
           => /\ HandlersNow[k].enabled = FALSE
              /\ HandlersNow[k].log_group_arn = EnvValue(s, ArnSuffix)

\* _configure has returned with a component's ARN set and its flag absent.
C2_Witness ==
    /\ pc = "done"
    /\ \E s \in ComponentSet :
         ArnIsSet(s) /\ EnvValue(s, EnabledSuffix) = Unset

(***************************************************************************)
(* C3: for a source whose ARN is set, the handler's "enabled" is True      *)
(* exactly when LOGS_ENABLED equals "true" ignoring case (False when it is *)
(* absent or anything else), and the logger's "level" is LOG_LEVEL as      *)
(* written, "INFO" when LOG_LEVEL is absent.                               *)
(***************************************************************************)
C3_EnvVarsCarried ==
    pc = "done" =>
      \A s \in Sources :
        ArnIsSet(s) =>
          /\ \A k \in ExpectedHandlerKeys(s) :
               HandlersNow[k].enabled =
                 ( EnvValue(s, EnabledSuffix) # Unset
                   /\ IsTrueIgnoringCase(EnvValue(s, EnabledSuffix)) )
          /\ \A l \in ExpectedLoggerKeys(s) :
               LoggersNow[l].level =
                 IF EnvValue(s, LevelSuffix) = Unset THEN <<"I","N","F","O">>
                 ELSE EnvValue(s, LevelSuffix)

\* _configure has returned for a source with its ARN set, its flag written
\* "TRUE" and no level.
C3_Witness ==
    /\ pc = "done"
    /\ \E s \in Sources :
         /\ ArnIsSet(s)
         /\ EnvValue(s, EnabledSuffix) = <<"T","R","U","E">>
         /\ EnvValue(s, LevelSuffix) = Unset

(***************************************************************************)
(* C4: the KMS key never gates a handler.  Every CloudWatch handler        *)
(* carries the same "kms_key_arn": the value of MWAA__CORE__KMS_KEY_ARN    *)
(* when it is set, None when it is absent; and the handler and logger keys *)
(* of the result are those _configure yields from the same environment     *)
(* with the KMS variable set instead of absent, or absent instead of set.  *)
(***************************************************************************)
\* The environment with the KMS key variable removed if set, set if absent.
ToggleKms(env) ==
    IF KmsEnvName \in DOMAIN env
    THEN [n \in DOMAIN env \ {KmsEnvName} |-> env[n]]
    ELSE [n \in DOMAIN env \cup {KmsEnvName} |->
            IF n = KmsEnvName THEN KmsArn ELSE env[n]]

C4_KmsNeverGates ==
    /\ pc # "L38" =>
         \A k \in DOMAIN HandlersNow :
           IsCloudWatchHandler(k) => HandlersNow[k].kms_key_arn = KmsValue
    /\ pc = "done" =>
         LET other == _configure(MWAA_LOGGERS, ToggleKms(environ),
                                 [handlers |-> InheritedHandlers,
                                  loggers |-> InheritedLoggers])
         IN  /\ DOMAIN other.handlers = DOMAIN HandlersNow
             /\ DOMAIN other.loggers = DOMAIN LoggersNow
             /\ \A k \in DOMAIN HandlersNow :
                  IsCloudWatchHandler(k) <=> "log_group_arn" \in DOMAIN other.handlers[k]
             /\ \A k \in DOMAIN HandlersNow :
                  IsCloudWatchHandler(k) => other.handlers[k].kms_key_arn # KmsValue

\* _configure has returned without a KMS key variable and has installed the
\* handlers of two sources at least.
C4_Witness ==
    /\ pc = "done"
    /\ KmsEnvName \notin DOMAIN environ
    /\ Cardinality({s \in Sources : ArnIsSet(s)}) >= 2
    /\ \A s \in Sources : ArnIsSet(s) =>
         \A k \in ExpectedHandlerKeys(s) : IsCloudWatchHandler(k)

(***************************************************************************)
(* C5: the scheduler sub-process logs to the logger named                  *)
(* "mwaa.schedulers": with the Scheduler ARN set, _configure installs a    *)
(* logger under that key; and each component with its ARN set gets the     *)
(* logger MWAA_LOGGERS names for its lower-cased name.                     *)
(***************************************************************************)
C5_SchedulersLogger ==
    pc = "done" =>
      /\ ArnIsSet(Components[2]) =>
           <<"m","w","a","a",".","s","c","h","e","d","u","l","e","r","s">>
             \in DOMAIN LoggersNow
      /\ \A c \in ComponentSet :
           ArnIsSet(c) => MWAA_LOGGERS[LowerName(c)] \in DOMAIN LoggersNow

(***************************************************************************)
(* C6: the logger of a component C and that of C_requirements are          *)
(* configured from the variables of C alone.  After _configure the two     *)
(* handlers are both present or both absent and agree on every key but     *)
(* "stream_name_prefix" (the lower-cased name) and "logs_source" (the name *)
(* as passed); the ARN, flag and level are those of C, also when variables *)
(* named after C_requirements are set; the two loggers agree on "level".   *)
(***************************************************************************)
C6_RequirementsSharesVariables ==
    pc = "done" =>
      \A c \in ComponentSet :
        LET h == <<"m","w","a","a","_">> \o LowerName(c)
            hr == h \o Requirements
            l == <<"m","w","a","a",".">> \o LowerName(c)
            lr == l \o Requirements
        IN  /\ h \in DOMAIN HandlersNow <=> hr \in DOMAIN HandlersNow
            /\ l \in DOMAIN LoggersNow <=> lr \in DOMAIN LoggersNow
            /\ h \in DOMAIN HandlersNow <=> l \in DOMAIN LoggersNow
            /\ h \in DOMAIN HandlersNow =>
                 /\ DOMAIN HandlersNow[h] = DOMAIN HandlersNow[hr]
                 /\ \A f \in DOMAIN HandlersNow[h] \ {"stream_name_prefix", "logs_source"} :
                      HandlersNow[h][f] = HandlersNow[hr][f]
                 /\ HandlersNow[h].stream_name_prefix = LowerName(c)
                 /\ HandlersNow[hr].stream_name_prefix = LowerName(c) \o Requirements
                 /\ HandlersNow[h].logs_source = c
                 /\ HandlersNow[hr].logs_source = c \o Requirements
                 /\ HandlersNow[hr].log_group_arn = EnvValue(c, ArnSuffix)
                 /\ HandlersNow[hr].enabled =
                      ( EnvValue(c, EnabledSuffix) # Unset
                        /\ IsTrueIgnoringCase(EnvValue(c, EnabledSuffix)) )
                 /\ LoggersNow[l].level = LoggersNow[lr].level
                 /\ LoggersNow[lr].level =
                      IF EnvValue(c, LevelSuffix) = Unset THEN <<"I","N","F","O">>
                      ELSE EnvValue(c, LevelSuffix)

\* _configure has returned for a component whose ARN is set while the variables
\* named after its _requirements sub-process are set too, to other values.
C6_Witness ==
    /\ pc = "done"
    /\ \E c \in ComponentSet :
         /\ ArnIsSet(c)
         /\ ArnIsSet(c \o Requirements)
         /\ EnvValue(c \o Requirements, ArnSuffix) # EnvValue(c, ArnSuffix)
         /\ EnvValue(c \o Requirements, LevelSuffix) # EnvValue(c, LevelSuffix)

(***************************************************************************)
(* C7: Airflow's defaults are kept.  With the task ARN set the 'task'      *)
(* handler is replaced and only "level" of the "airflow.task" logger       *)
(* changes; "airflow.processor_manager", "airflow.processor" and the       *)
(* "mwaa.*" loggers are whole new entries with exactly handlers, level and *)
(* propagate False; every key no source names is left as inherited.        *)
(***************************************************************************)
C7_DefaultsKept ==
    pc = "done" =>
      /\ ArnIsSet(TASK) =>
           /\ IsCloudWatchHandler(TASK)
           /\ HandlersNow[TASK] # InheritedHandlers[TASK]
           /\ DOMAIN LoggersNow[AIRFLOW_TASK] = DOMAIN InheritedLoggers[AIRFLOW_TASK]
           /\ \A f \in DOMAIN LoggersNow[AIRFLOW_TASK] \ {"level"} :
                LoggersNow[AIRFLOW_TASK][f] = InheritedLoggers[AIRFLOW_TASK][f]
      /\ \A s \in Sources \ {TASK} :
           ArnIsSet(s) =>
             \A l \in ExpectedLoggerKeys(s) :
               /\ l \in DOMAIN LoggersNow
               /\ DOMAIN LoggersNow[l] = {"handlers", "level", "propagate"}
               /\ LoggersNow[l].propagate = FALSE
      /\ \A k \in (DOMAIN HandlersNow \cup DOMAIN InheritedHandlers)
                    \ UNION {ExpectedHandlerKeys(s) : s \in Sources} :
           SameEntry(HandlersNow, InheritedHandlers, k)
      /\ \A l \in (DOMAIN LoggersNow \cup DOMAIN InheritedLoggers)
                    \ UNION {ExpectedLoggerKeys(s) : s \in Sources} :
           SameEntry(LoggersNow, InheritedLoggers, l)

\* _configure has returned with the task and dagprocessor ARNs set, on a default
\* configuration whose "airflow.task" logger has more keys than the three and
\* which already held an "airflow.processor_manager" logger.
C7_Witness ==
    /\ pc = "done"
    /\ ArnIsSet(TASK) /\ ArnIsSet(DAGPROCESSOR)
    /\ EnvValue(TASK, LevelSuffix) # Unset
    /\ "filters" \in DOMAIN InheritedLoggers[AIRFLOW_TASK]
    /\ InheritedLoggers[AIRFLOW_TASK].propagate = TRUE
    /\ AIRFLOW_PROCESSOR_MANAGER \in DOMAIN InheritedLoggers

(***************************************************************************)
(* C8: referential integrity after every prefix of the calls.  Each logger *)
(* entry this module wrote names exactly one handler; that handler is in   *)
(* LOGGING_CONFIG["handlers"], was written by the same call and carries    *)
(* the ARN of the source the call was made for; for a sub-process logger   *)
(* the handler key is the logger name with every '.' replaced by '_'.  No  *)
(* call writes a logger without its handler or a handler without its       *)
(* logger.                                                                 *)
(***************************************************************************)
\* The source whose variables the call named c is made with.
SourceOfCall(c) ==
    IF c \in Sources THEN c
    ELSE CHOOSE x \in ComponentSet : c = x \o Requirements

DotsToUnderscores(name, key) ==
    /\ Len(key) = Len(name)
    /\ \A k \in 1..Len(name) : key[k] = IF name[k] = "." THEN "_" ELSE name[k]

C8_ReferentialIntegrity ==
    pc # "L38" =>
      /\ \A w \in writes :
           w.dict = "loggers" =>
             LET e == LoggersNow[w.key]
             IN  /\ Len(e.handlers) = 1
                 /\ e.handlers[1] \in DOMAIN HandlersNow
                 /\ [call |-> w.call, dict |-> "handlers", key |-> e.handlers[1]]
                      \in writes
                 /\ IsCloudWatchHandler(e.handlers[1])
                 /\ HandlersNow[e.handlers[1]].log_group_arn
                      = EnvValue(SourceOfCall(w.call), ArnSuffix)
                 /\ w.call \notin {TASK, DAGPROCESSOR} =>
                      DotsToUnderscores(w.key, e.handlers[1])
      /\ \A w \in writes :
           w.dict = "handlers" =>
             \E w2 \in writes :
               /\ w2.call = w.call
               /\ w2.dict = "loggers"
               /\ LoggersNow[w2.key].handlers = <<w.key>>

\* Between the two calls of an iteration of the loop, the first of which has
\* written a sub-process logger, with the dagprocessor loggers written before.
C8_Witness ==
    /\ pc = "L158"
    /\ \E w \in writes : w.call = Components[comp] /\ w.dict = "loggers"
    /\ \E w \in writes : w.call = DAGPROCESSOR /\ w.dict = "loggers"

(***************************************************************************)
(* C9: the calls of _configure write pairwise disjoint keys, so their      *)
(* order does not matter.  No call writes a key another call wrote, at     *)
(* most 11 handler entries are written, the MWAA_LOGGERS lookup never      *)
(* fails, every call is made once and after MWAA_LOGGERS is defined, and   *)
(* when the ten calls have been made in any order LOGGING_CONFIG is what   *)
(* _configure yields in its own order.                                     *)
(***************************************************************************)
C9_CallsCommute ==
    /\ \A w1 \in writes : \A w2 \in writes :
         (w1.dict = w2.dict /\ w1.key = w2.key) => w1.call = w2.call
    /\ Cardinality({w \in writes : w.dict = "handlers"}) <= 11
    /\ pc # "KeyError"
    /\ \A w \in writes : w.call \notin pending
    /\ pending # AllCalls =>
         DOMAIN MWAA_LOGGERS =
           {LowerName(c) : c \in ComponentSet}
           \cup {LowerName(c) \o Requirements : c \in ComponentSet}
    /\ pc = "done" =>
         /\ pending = {}
         /\ [handlers |-> HandlersNow, loggers |-> LoggersNow]
              = _configure(MWAA_LOGGERS, environ,
                           [handlers |-> InheritedHandlers,
                            loggers |-> InheritedLoggers])

\* All ten calls have been made, every source has its ARN set, and the eleven
\* handlers are written.
C9_Witness ==
    /\ pc = "done"
    /\ Cardinality({w \in writes : w.dict = "handlers"}) = 11
    /\ Cardinality({w.call : w \in writes}) = 10

(***************************************************************************)
(* C10: LOGGING_CONFIG is a shallow copy of DEFAULT_LOGGING_CONFIG: the    *)
(* same top-level keys, and "handlers" and "loggers" are the very objects  *)
(* of the default.  Every entry this module wrote is visible through the   *)
(* default, whose nested maps equal those of LOGGING_CONFIG in every       *)
(* state; the default is left unchanged only when no log group ARN         *)
(* variable is set to a non-empty string.                                  *)
(***************************************************************************)
DefaultUnchanged ==
    /\ heap[DEFAULT_LOGGING_CONFIG["handlers"]] = InheritedHandlers
    /\ heap[DEFAULT_LOGGING_CONFIG["loggers"]] = InheritedLoggers

SharedWithDefault ==
    /\ DOMAIN LOGGING_CONFIG = DOMAIN DEFAULT_LOGGING_CONFIG
    /\ LOGGING_CONFIG["handlers"] = DEFAULT_LOGGING_CONFIG["handlers"]
    /\ LOGGING_CONFIG["loggers"] = DEFAULT_LOGGING_CONFIG["loggers"]
    /\ heap[DEFAULT_LOGGING_CONFIG["handlers"]] = HandlersNow
    /\ heap[DEFAULT_LOGGING_CONFIG["loggers"]] = LoggersNow
    /\ \A w \in writes :
         w.key \in DOMAIN heap[DEFAULT_LOGGING_CONFIG[w.dict]]

C10_SharedWithDefault ==
    pc # "L38" =>
      /\ SharedWithDefault
      /\ (pc = "done" /\ DefaultUnchanged) => \A s \in Sources : ~ArnIsSet(s)

\* _configure has returned and Airflow's own dicts hold entries it wrote.
C10_Witness ==
    /\ pc = "done"
    /\ writes # {}
    /\ ~DefaultUnchanged
    /\ \E w \in writes :
         w.dict = "handlers"
         /\ "log_group_arn" \in DOMAIN heap[DEFAULT_LOGGING_CONFIG["handlers"]][w.key]

\* C10 as written: the default is left unchanged only when no log group ARN
\* variable is set at all.
C10_Original ==
    pc # "L38" =>
      /\ SharedWithDefault
      /\ (pc = "done" /\ DefaultUnchanged) =>
           \A s \in Sources : EnvValue(s, ArnSuffix) = Unset

====
